---- MODULE Spec2Model ----
(***************************************************************************)
(* Model of request_py.py: the image fetcher's name resolution             *)
(* (extract_filename), content-type mapping, duplicate scan                *)
(* (is_duplicate_image), the fetch pipeline (download_image) and the batch *)
(* loop of main.                                                           *)
(*                                                                         *)
(* Strings are sequences of one-character strings, so that startswith,     *)
(* split, basename, unquote and lower are computed character by character. *)
(* The HTTP transport (requests) and the filesystem are the environment:   *)
(* a response is chosen per call, the directory is a map from entry names  *)
(* to entries, listed in an order that is arbitrary but stable while the   *)
(* directory is unchanged.                                                 *)
(***************************************************************************)
EXTENDS Integers, Sequences, FiniteSets, TLC

VARIABLES
    pc,                   \* control location of the running program
    url_in,               \* extract_filename: argument url
    ctype_in,             \* extract_filename: argument content_type
    filename_out,         \* extract_filename: returned filename
    dir,                  \* the target directory: entry name -> entry
    listing,              \* os.listdir(directory): the entry names in listing order
    outside,              \* files written at paths that are no direct child of dir
    written,              \* places written by download_image so far
    fetched,              \* bodies of the calls that returned True so far
    last,                 \* record of the latest download_image call
    ncalls,               \* number of download_image calls so far
    urls,                 \* main: the list of URLs
    i,                    \* main: loop index (1-based position of the next URL)
    successful_downloads, \* main: the success counter
    calls,                \* main: URLs handed to download_image, in call order
    rets                  \* main: the values download_image returned, in call order

vars == << pc, url_in, ctype_in, filename_out, dir, listing, outside, written,
           fetched, last, ncalls, urls, i, successful_downloads, calls, rets >>

nameVars == << url_in, ctype_in, filename_out >>
fsVars == << dir, listing, outside, written, fetched, last, ncalls >>
mainVars == << urls, i, successful_downloads, calls, rets >>

(***************************************************************************)
(* Bounds of the model.                                                    *)
(***************************************************************************)
MaxSegs == 4     \* pieces a generated URL tail is built from
MaxCalls == 2    \* download_image calls in a free sequence of calls
MaxUrls == 2     \* URLs in the list given to main

(***************************************************************************)
(* Characters.                                                             *)
(***************************************************************************)
Printable ==
    << " ", "!", "DQUOTE", "#", "$", "%", "&", "QUOTE", "(", ")", "*", "+", ",", "-", ".", "/",
       "0", "1", "2", "3", "4", "5", "6", "7", "8", "9", ":", ";", "<", "=", ">", "?",
       "@", "A", "B", "C", "D", "E", "F", "G", "H", "I", "J", "K", "L", "M", "N", "O",
       "P", "Q", "R", "S", "T", "U", "V", "W", "X", "Y", "Z", "[", "BACKSLASH", "]", "^", "_",
       "BACKTICK", "a", "b", "c", "d", "e", "f", "g", "h", "i", "j", "k", "l", "m", "n", "o",
       "p", "q", "r", "s", "t", "u", "v", "w", "x", "y", "z", "{", "|", "}", "~" >>

\* The character U+FFFD that a UTF-8 decode with errors=replace yields.
ReplacementChar == "U+FFFD"

Range(s) == { s[k] : k \in 1..Len(s) }

PrintableSet == Range(Printable)

OrdTable == [ c \in PrintableSet |-> 31 + (CHOOSE n \in 1..Len(Printable) : Printable[n] = c) ]

\* Code point of a character.
Ord(c) == IF c \in PrintableSet THEN OrdTable[c] ELSE 65533

\* Character of a byte decoded on its own: ASCII, or the replacement character
\* for a byte that is no complete UTF-8 sequence.
Chr(n) ==
    IF n \in 32..126 THEN Printable[n - 31]
    ELSE IF n < 128 THEN "U+00" ELSE ReplacementChar

UpperCase == { Printable[n] : n \in 34..59 }
LowerCase == { Printable[n] : n \in 66..91 }
Digits == { Printable[n] : n \in 17..26 }

LowerTable == [ c \in UpperCase |-> Chr(Ord(c) + 32) ]

LowerChar(c) == IF c \in UpperCase THEN LowerTable[c] ELSE c

\* str.lower()
Lower(s) == [ k \in 1..Len(s) |-> LowerChar(s[k]) ]

HexDigits == <<"0", "1", "2", "3", "4", "5", "6", "7", "8", "9", "a", "b", "c", "d", "e", "f">>

HexSet == { c \in PrintableSet : LowerChar(c) \in Range(HexDigits) }

HexTable == [ c \in HexSet |-> (CHOOSE n \in 1..16 : HexDigits[n] = LowerChar(c)) - 1 ]

IsHex(c) == c \in HexSet

HexVal(c) == HexTable[c]

(***************************************************************************)
(* String helpers.                                                         *)
(***************************************************************************)
\* str.startswith
StartsWith(s, p) == Len(s) >= Len(p) /\ SubSeq(s, 1, Len(p)) = p

Contains(s, c) == \E k \in 1..Len(s) : s[k] = c

MinOrZero(S) == IF S = {} THEN 0 ELSE CHOOSE k \in S : \A j \in S : k <= j

MaxOrZero(S) == IF S = {} THEN 0 ELSE CHOOSE k \in S : \A j \in S : k >= j

\* Least position >= from of a character of cs in s, or 0.
FindAny(s, cs, from) == MinOrZero({ k \in from..Len(s) : s[k] \in cs })

\* str.rfind of one character, or 0.
RFind(s, c) == MaxOrZero({ k \in 1..Len(s) : s[k] = c })

Tail2(s, from) == SubSeq(s, from, Len(s))

\* s[:k-1] for a position k, all of s for k = 0.
Before(s, k) == IF k = 0 THEN s ELSE SubSeq(s, 1, k - 1)

\* s.split(c)[0]
SplitFirst(s, c) == Before(s, FindAny(s, {c}, 1))

(***************************************************************************)
(* urllib.parse.unquote: every "%XY" with two hex digits is replaced by    *)
(* the byte it names; any other "%" is kept.  The bytes are decoded as     *)
(* UTF-8 with errors=replace; the inputs of this model produce ASCII     *)
(* bytes and isolated continuation bytes only.                             *)
(***************************************************************************)
RECURSIVE UnquoteFrom(_, _)
UnquoteFrom(s, k) ==
    IF k > Len(s) THEN << >>
    ELSE IF s[k] = "%" /\ k + 2 <= Len(s) /\ IsHex(s[k + 1]) /\ IsHex(s[k + 2])
         THEN << Chr(16 * HexVal(s[k + 1]) + HexVal(s[k + 2])) >> \o UnquoteFrom(s, k + 3)
         ELSE << s[k] >> \o UnquoteFrom(s, k + 1)

unquote(s) == IF Contains(s, "%") THEN UnquoteFrom(s, 1) ELSE s

(***************************************************************************)
(* urllib.parse.urlparse(url).path: the scheme, the //netloc, the          *)
(* #fragment, the ?query and the ;params of the last segment are cut off.  *)
(***************************************************************************)
SchemeChars == UpperCase \cup LowerCase \cup Digits \cup {"+", "-", "."}

UsesParams ==
    { << >>, <<"f", "t", "p">>, <<"h", "t", "t", "p">>, <<"h", "t", "t", "p", "s">> }

\* The position of the ":" that ends a scheme, or 0 when url has no scheme.
SchemeEnd(url, k) ==
    IF k > 1 /\ url[1] \in (UpperCase \cup LowerCase)
       /\ \A j \in 1..(k - 1) : url[j] \in SchemeChars
    THEN k
    ELSE 0

UrlScheme(url, e) == IF e = 0 THEN << >> ELSE Lower(SubSeq(url, 1, e - 1))

AfterScheme(url, e) == IF e = 0 THEN url ELSE Tail2(url, e + 1)

\* What follows the netloc, which ends at position d - 1 (d = 0: at the end).
CutNetloc(rest, d) == IF d = 0 THEN << >> ELSE Tail2(rest, d)

AfterNetloc(rest) ==
    IF StartsWith(rest, <<"/", "/">>)
    THEN CutNetloc(rest, FindAny(rest, {"/", "?", "#"}, 3))
    ELSE rest

\* _splitparams: the ";params" of the last path segment are cut off.
SplitParams(scheme, p) ==
    IF scheme \in UsesParams /\ Contains(p, ";")
    THEN Before(p, FindAny(p, {";"}, RFind(p, "/") + 1))
    ELSE p

PathAfterScheme(url, e) ==
    SplitParams(UrlScheme(url, e),
                SplitFirst(SplitFirst(AfterNetloc(AfterScheme(url, e)), "#"), "?"))

UrlPath(url) == PathAfterScheme(url, SchemeEnd(url, FindAny(url, {":"}, 1)))

\* os.path.basename: what follows the last "/".
basename(p) == Tail2(p, RFind(p, "/") + 1)

(***************************************************************************)
(* hashlib.md5(url.encode()).hexdigest()[:8].  MD5 itself is not computed: *)
(* the stand-in is a deterministic digest of the characters of the URL,    *)
(* rendered as 8 hexadecimal characters.  Like MD5 it is a function of the *)
(* URL string alone and is not injective.                                  *)
(***************************************************************************)
RECURSIVE FoldFrom(_, _, _, _)
FoldFrom(s, k, mult, acc) ==
    IF k > Len(s) THEN acc
    ELSE FoldFrom(s, k + 1, mult, (acc * mult + Ord(s[k])) % 65536)

Fold(s, mult, acc) == FoldFrom(s, 1, mult, acc)

Hex4(n) ==
    << HexDigits[((n \div 4096) % 16) + 1], HexDigits[((n \div 256) % 16) + 1],
       HexDigits[((n \div 16) % 16) + 1], HexDigits[(n % 16) + 1] >>

Md5Hex8(url) == Hex4(Fold(url, 31, 7)) \o Hex4(Fold(url, 37, 11))

(***************************************************************************)
(* get_extension_from_content_type.  None and '' are both the empty        *)
(* sequence: the code tests them with `not content_type` and `... or`.     *)
(***************************************************************************)
None == << >>

ExtJpg == <<".", "j", "p", "g">>

content_map ==
    { << <<"i", "m", "a", "g", "e", "/", "j", "p", "e", "g">>, ExtJpg >>,
      << <<"i", "m", "a", "g", "e", "/", "j", "p", "g">>, ExtJpg >>,
      << <<"i", "m", "a", "g", "e", "/", "p", "n", "g">>, <<".", "p", "n", "g">> >>,
      << <<"i", "m", "a", "g", "e", "/", "g", "i", "f">>, <<".", "g", "i", "f">> >>,
      << <<"i", "m", "a", "g", "e", "/", "w", "e", "b", "p">>, <<".", "w", "e", "b", "p">> >>,
      << <<"i", "m", "a", "g", "e", "/", "s", "v", "g", "+", "x", "m", "l">>, <<".", "s", "v", "g">> >>,
      << <<"i", "m", "a", "g", "e", "/", "b", "m", "p">>, <<".", "b", "m", "p">> >>,
      << <<"i", "m", "a", "g", "e", "/", "t", "i", "f", "f">>, <<".", "t", "i", "f", "f">> >> }

\* content_map.get(key)
MapGet(key) ==
    IF \E e \in content_map : e[1] = key
    THEN (CHOOSE e \in content_map : e[1] = key)[2]
    ELSE None

get_extension_from_content_type(content_type) ==
    IF content_type = << >> THEN None ELSE MapGet(Lower(content_type))

(***************************************************************************)
(* extract_filename.                                                       *)
(***************************************************************************)
NamePrefix == <<"u", "b", "u", "n", "t", "u", "_", "i", "m", "a", "g", "e", "_">>

\* x or default
OrElse(x, default) == IF x # None THEN x ELSE default

\* The generated name of the fallback branch.
GeneratedName(url, content_type) ==
    NamePrefix \o Md5Hex8(url)
               \o OrElse(get_extension_from_content_type(content_type), ExtJpg)

\* A test that forgets the length of the basename.
NameFromBasenameNoLengthTest(filename, url, content_type) ==
    IF filename = << >> \/ ~Contains(filename, ".")
    THEN GeneratedName(url, content_type)
    ELSE IF Contains(filename, "%") THEN unquote(filename) ELSE filename

\* The branches of extract_filename for the basename filename of the path.
NameFromBasename(filename, url, content_type) ==
    IF filename = << >> \/ ~Contains(filename, ".") \/ Len(filename) < 3
    THEN GeneratedName(url, content_type)
    ELSE IF Contains(filename, "%") THEN unquote(filename) ELSE filename

extract_filename(url, content_type) ==
    NameFromBasename(basename(unquote(UrlPath(url))), url, content_type)

(***************************************************************************)
(* Inputs of the name-resolution runs: a URL is a prefix followed by at    *)
(* most MaxSegs pieces.                                                    *)
(***************************************************************************)
UrlPrefixes ==
    { <<"h", "t", "t", "p", ":", "/", "/", "h", "/">>,
      <<"h", "t", "t", "p", ":", "/", "/", "h">>,
      << >> }

Pieces == { <<"/">>, <<"x">>, <<".">>, <<"%">>, <<"2", "5">>, <<"2", "F">>, <<"?">> }

AddPiece(T) == T \cup { t \o p : t \in T, p \in Pieces }

RECURSIVE Tails(_)
Tails(n) == IF n = 0 THEN { << >> } ELSE AddPiece(Tails(n - 1))

NameURLs == { p \o t : p \in UrlPrefixes, t \in Tails(MaxSegs) } \ { << >> }

NameCTypes ==
    { None,
      <<"I", "m", "a", "g", "e", "/", "G", "I", "F">>,
      <<"i", "m", "a", "g", "e", "/", "w", "e", "b", "p">>,
      <<"i", "m", "a", "g", "e", "/", "x">> }

(***************************************************************************)
(* Response bodies and hashlib.md5 of a body.  MD5 is not computed: the    *)
(* digest of a body is looked up, and, as MD5 is not injective, "B1" and   *)
(* "B1c" are two different byte strings with one digest.  "" is the empty  *)
(* body.                                                                   *)
(***************************************************************************)
Bodies == { "B1", "B2", "B1c" }

Md5Body(content) ==
    CASE content \in { "B1", "B1c" } -> "5d41"
      [] content = "" -> "d41d"
      [] OTHER -> "7f8a"

(***************************************************************************)
(* The filesystem.  An entry of the directory is a regular file (readable  *)
(* or not, with its bytes) or a subdirectory.                              *)
(***************************************************************************)
FileEntry(readable, content) ==
    [ kind |-> "file", readable |-> readable, content |-> content ]

DirEntry == [ kind |-> "dir", readable |-> TRUE, content |-> "-" ]

\* The directory argument of download_image, a path relative to the working
\* directory.
DirectoryName ==
    <<"F", "e", "t", "c", "h", "e", "d", "_", "I", "m", "a", "g", "e", "s">>

DotDot == <<".", ".">>

\* s.split(c)
RECURSIVE Split(_, _)
RECURSIVE SplitAt(_, _, _)
SplitAt(s, c, k) ==
    IF k = 0 THEN << s >>
    ELSE << SubSeq(s, 1, k - 1) >> \o Split(Tail2(s, k + 1), c)

Split(s, c) == SplitAt(s, c, FindAny(s, {c}, 1))

\* A place in the filesystem: the directory `at` and the name `leaf` in it.
\* `at` is "dir" (the target directory), "sub" (its subdirectory `sub`), "up"
\* (`up` levels above it), "root", or "none" (the path does not resolve).
Place(at, sub, up, leaf) == [ at |-> at, sub |-> sub, up |-> up, leaf |-> leaf ]

NoPlace == Place("none", << >>, 0, << >>)

\* One intermediate component of a path, walked from the directory loc.
StepInto(loc, comp, d) ==
    IF loc.at = "none" \/ comp \in { << >>, <<".">> } THEN loc
    ELSE IF comp = DotDot
         THEN CASE loc.at = "dir" -> Place("up", << >>, 1, << >>)
                [] loc.at = "sub" -> Place("dir", << >>, 0, << >>)
                [] loc.at = "up" -> Place("up", << >>, loc.up + 1, << >>)
                [] OTHER -> loc
         ELSE CASE loc.at = "dir" /\ comp \in DOMAIN d /\ d[comp].kind = "dir"
                     -> Place("sub", comp, 0, << >>)
                [] loc.at = "up" /\ loc.up = 1 /\ comp = DirectoryName
                     -> Place("dir", << >>, 0, << >>)
                [] OTHER -> NoPlace

RECURSIVE Walk(_, _, _)
Walk(loc, comps, d) ==
    IF Len(comps) = 1 THEN [ loc EXCEPT !.leaf = comps[1] ]
    ELSE Walk(StepInto(loc, comps[1], d), Tail(comps), d)

\* os.path.join(directory, filename), resolved: an absolute filename replaces
\* the directory.
ResolvePath(filename, d) ==
    Walk(IF StartsWith(filename, <<"/">>) THEN Place("root", << >>, 0, << >>)
         ELSE Place("dir", << >>, 0, << >>),
         Split(filename, "/"), d)

\* open(filepath, 'wb') can create or truncate the file at this place.
CanOpenForWrite(place, d) ==
    /\ place.at # "none"
    /\ place.leaf \notin { << >>, <<".">>, DotDot }
    /\ ~(place.at = "dir" /\ place.leaf \in DOMAIN d /\ d[place.leaf].kind = "dir")
    /\ ~(place.at = "up" /\ place.up = 1 /\ place.leaf = DirectoryName)

(***************************************************************************)
(* is_duplicate_image: the entries are visited in listing order;           *)
(* non-files are skipped, a file whose read raises IOError is skipped, the *)
(* first file with the digest of the content is returned.                  *)
(***************************************************************************)
RECURSIVE ScanFrom(_, _, _, _)
ScanFrom(d, lst, k, content_hash) ==
    IF k > Len(lst) THEN [ dup |-> FALSE, name |-> None ]
    ELSE IF /\ d[lst[k]].kind = "file"
            /\ d[lst[k]].readable
            /\ Md5Body(d[lst[k]].content) = content_hash
         THEN [ dup |-> TRUE, name |-> lst[k] ]
         ELSE ScanFrom(d, lst, k + 1, content_hash)

\* A scan that gives up at the first file it cannot read.
RECURSIVE ScanFromAbortOnError(_, _, _, _)
ScanFromAbortOnError(d, lst, k, content_hash) ==
    IF k > Len(lst) THEN [ dup |-> FALSE, name |-> None ]
    ELSE IF d[lst[k]].kind = "file" /\ ~d[lst[k]].readable
         THEN [ dup |-> FALSE, name |-> None ]
         ELSE IF d[lst[k]].kind = "file" /\ Md5Body(d[lst[k]].content) = content_hash
              THEN [ dup |-> TRUE, name |-> lst[k] ]
              ELSE ScanFromAbortOnError(d, lst, k + 1, content_hash)

is_duplicate_imageAbortOnError(d, lst, content) ==
    ScanFromAbortOnError(d, lst, 1, Md5Body(content))

\* A scan that returns after the first entry, whatever it is.
is_duplicate_imageFirstEntryOnly(d, lst, content) ==
    IF lst # << >> /\ d[lst[1]].kind = "file" /\ d[lst[1]].readable
       /\ Md5Body(d[lst[1]].content) = Md5Body(content)
    THEN [ dup |-> TRUE, name |-> lst[1] ]
    ELSE [ dup |-> FALSE, name |-> None ]

is_duplicate_image(d, lst, content) == ScanFrom(d, lst, 1, Md5Body(content))

(***************************************************************************)
(* The HTTP collaborator: requests.get either raises a RequestException    *)
(* (err) or returns a response with a status code, headers and content.    *)
(***************************************************************************)
ContentTypeHeader == "Content-Type"

Response(status, headers, content) ==
    [ err |-> FALSE, status_code |-> status, headers |-> headers, content |-> content ]

ConnectionError ==
    [ err |-> TRUE, status_code |-> 0, headers |-> << >>, content |-> "-" ]

\* No request was issued.
NoResponse ==
    [ err |-> FALSE, status_code |-> 0, headers |-> << >>, content |-> "-" ]

\* response.headers.get(name, default)
HeadersGet(headers, name, default) ==
    IF \E k \in 1..Len(headers) : headers[k][1] = name
    THEN headers[CHOOSE k \in 1..Len(headers) : headers[k][1] = name][2]
    ELSE default

\* A raise_for_status that raises for server errors only.
raise_for_statusServerErrorsOnly(status_code) == status_code \in 500..599

\* response.raise_for_status() raises HTTPError for 4xx and 5xx codes only.
raise_for_status(status_code) == status_code \in 400..599

\* A scheme test that accepts any URL with a "://".
ValidSchemeAnyScheme(url) ==
    \E k \in 1..Len(url) : StartsWith(Tail2(url, k), <<":", "/", "/">>)

\* url.startswith(('http://', 'https://'))
ValidScheme(url) ==
    \/ StartsWith(url, <<"h", "t", "t", "p", ":", "/", "/">>)
    \/ StartsWith(url, <<"h", "t", "t", "p", "s", ":", "/", "/">>)

\* A content-type test that lets a response without the header through.
IsImageTypeOrMissing(content_type) ==
    content_type = << >> \/ StartsWith(content_type, <<"i", "m", "a", "g", "e", "/">>)

\* content_type.startswith('image/')
IsImageType(content_type) == StartsWith(content_type, <<"i", "m", "a", "g", "e", "/">>)

(***************************************************************************)
(* download_image up to its return: what the call decides for the URL, the *)
(* response and the directory it finds.  io_fails is the environment's     *)
(* choice that open(filepath, 'wb') raises IOError.  Every exception is    *)
(* caught by one of the three handlers, which return False.                *)
(***************************************************************************)
CallResult(ret, outcome, filename, reported, requested, scanned, target) ==
    [ ret |-> ret, outcome |-> outcome, filename |-> filename, reported |-> reported,
      requested |-> requested, scanned |-> scanned, target |-> target ]

\* Lines 133-142: the duplicate scan found nothing, the file is written.
SaveImage(filename, target, io_fails, d) ==
    IF io_fails \/ ~CanOpenForWrite(target, d)
    THEN CallResult(FALSE, "file_error", filename, None, TRUE, TRUE, NoPlace)
    ELSE CallResult(TRUE, "saved", filename, None, TRUE, TRUE, target)

\* Lines 127-142: the outcome of the duplicate scan decides.
CheckDuplicate(filename, scan, io_fails, d) ==
    IF scan.dup
    THEN CallResult(TRUE, "duplicate", filename, scan.name, TRUE, TRUE, NoPlace)
    ELSE SaveImage(filename, ResolvePath(filename, d), io_fails, d)

\* Lines 104-142: the response passed raise_for_status.
HandleResponse(url, content_type, response, io_fails, d, lst) ==
    IF ~IsImageType(content_type)
    THEN CallResult(FALSE, "not_image", None, None, TRUE, FALSE, NoPlace)
    ELSE CheckDuplicate(extract_filename(url, content_type),
                        is_duplicate_image(d, lst, response.content), io_fails, d)

download_image_result(url, response, io_fails, d, lst) ==
    IF ~ValidScheme(url)
    THEN CallResult(FALSE, "invalid_scheme", None, None, FALSE, FALSE, NoPlace)
    ELSE IF response.err
    THEN CallResult(FALSE, "connection_error", None, None, TRUE, FALSE, NoPlace)
    ELSE IF raise_for_status(response.status_code)
    THEN CallResult(FALSE, "http_error", None, None, TRUE, FALSE, NoPlace)
    ELSE HandleResponse(url,
                        SplitFirst(HeadersGet(response.headers, ContentTypeHeader, << >>), ";"),
                        response, io_fails, d, lst)

\* The file that f.write(response.content) leaves at a direct child of the
\* directory: an existing file keeps its permissions.
WrittenEntry(d, name, content) ==
    FileEntry(IF name \in DOMAIN d THEN d[name].readable ELSE TRUE, content)

InsertAt(lst, pos, name) ==
    SubSeq(lst, 1, pos - 1) \o << name >> \o SubSeq(lst, pos, Len(lst))

\* The effect of a call with result r on the filesystem and on the records
\* kept of the run.  A newly created entry shows up at an arbitrary position
\* of later listings.
ApplyResult(r, t, url, response, io_fails) ==
    /\ r.requested \/ response = ConnectionError
    /\ io_fails => r.outcome = "file_error"
    /\ IF r.outcome = "saved" /\ t.at = "dir"
       THEN /\ dir' = [ n \in DOMAIN dir \cup { t.leaf } |->
                          IF n = t.leaf THEN WrittenEntry(dir, n, response.content)
                          ELSE dir[n] ]
            /\ IF t.leaf \in DOMAIN dir
               THEN listing' = listing
               ELSE \E pos \in 1..(Len(listing) + 1) :
                       listing' = InsertAt(listing, pos, t.leaf)
       ELSE dir' = dir /\ listing' = listing
    /\ outside' = IF r.outcome = "saved" /\ t.at # "dir"
                  THEN [ q \in DOMAIN outside \cup { t } |->
                           IF q = t THEN response.content ELSE outside[q] ]
                  ELSE outside
    /\ written' = IF r.outcome = "saved" THEN written \cup { t } ELSE written
    /\ fetched' = IF r.ret THEN fetched \cup { response.content } ELSE fetched
    /\ last' = [ url |-> url,
                 response |-> IF r.requested THEN response ELSE NoResponse,
                 result |-> r,
                 before |-> [ dir |-> dir, listing |-> listing, outside |-> outside ] ]
    /\ ncalls' = ncalls + 1

ApplyCall(r, url, response, io_fails) == ApplyResult(r, r.target, url, response, io_fails)

\* download_image: one whole call.
download_image(url, response, io_fails) ==
    ApplyCall(download_image_result(url, response, io_fails, dir, listing),
              url, response, io_fails)

(***************************************************************************)
(* Inputs of the fetch runs.                                               *)
(***************************************************************************)
UrlPlain == <<"h", "t", "t", "p", ":", "/", "/", "h", "/", "x", ".", "p">>
UrlSameName == <<"h", "t", "t", "p", "s", ":", "/", "/", "h", "/", "x", ".", "p">>
UrlNoName == <<"h", "t", "t", "p", ":", "/", "/", "h", "/">>
UrlEncodedParent == <<"h", "t", "t", "p", ":", "/", "/", "h", "/", ".", ".", "%", "2", "5", "2", "F", "x", ".", "p">>
UrlEncodedSub == <<"h", "t", "t", "p", ":", "/", "/", "h", "/", "d", "%", "2", "5", "2", "F", "x", ".", "p">>
UrlFtp == <<"f", "t", "p", ":", "/", "/", "h", "/", "x", ".", "p">>

FetchURLs == { UrlPlain, UrlSameName, UrlNoName, UrlEncodedParent, UrlEncodedSub, UrlFtp }

ImagePngWithParam == << << ContentTypeHeader, <<"i", "m", "a", "g", "e", "/", "p", "n", "g", ";", "q">> >> >>
TextHtml == << << ContentTypeHeader, <<"t", "e", "x", "t", "/", "h", "t", "m", "l">> >> >>
CapitalImagePng == << << ContentTypeHeader, <<"I", "m", "a", "g", "e", "/", "p", "n", "g">> >> >>
NoHeaders == << >>

\* Responses requests.get may return: error statuses; statuses outside 2xx
\* that are no error statuses (a 1xx response has no body, a 300 response or a
\* redirect without Location is returned with its body); and 200 with and
\* without an image content type.
Responses ==
    { ConnectionError }
    \cup { Response(st, h, "B1") : st \in { 404, 503 }, h \in { ImagePngWithParam, NoHeaders } }
    \cup { Response(101, ImagePngWithParam, "") }
    \cup { Response(300, ImagePngWithParam, b) : b \in { "B1", "B2" } }
    \cup { Response(200, h, "B1") : h \in { NoHeaders, TextHtml, CapitalImagePng } }
    \cup { Response(200, ImagePngWithParam, b) : b \in Bodies }

NameX == <<"x", ".", "p">>
NameZ == <<"z", ".", "z">>
NameD == <<"d">>

\* A directory given by its entries in listing order.
DirOf(entries) ==
    [ dir |-> [ n \in { e[1] : e \in Range(entries) } |->
                  (CHOOSE e \in Range(entries) : e[1] = n)[2] ],
      listing |-> [ k \in 1..Len(entries) |-> entries[k][1] ] ]

\* Directories the run may find: empty, one image, a file that cannot be read
\* under a name a URL resolves to, a subdirectory, two files with one digest,
\* and an unreadable file listed before and after a readable one.
InitDirs ==
    { DirOf(<< >>),
      DirOf(<< <<NameZ, FileEntry(TRUE, "B1")>> >>),
      DirOf(<< <<NameX, FileEntry(FALSE, "B2")>> >>),
      DirOf(<< <<NameD, DirEntry>> >>),
      DirOf(<< <<NameX, DirEntry>>, <<NameZ, FileEntry(TRUE, "B2")>> >>),
      DirOf(<< <<NameX, FileEntry(TRUE, "B1")>>, <<NameZ, FileEntry(TRUE, "B1c")>> >>),
      DirOf(<< <<NameZ, FileEntry(TRUE, "B1c")>>, <<NameX, FileEntry(TRUE, "B1")>> >>),
      DirOf(<< <<NameZ, FileEntry(FALSE, "B1")>>, <<NameD, FileEntry(TRUE, "B1")>> >>),
      DirOf(<< <<NameD, FileEntry(TRUE, "B1")>>, <<NameZ, FileEntry(FALSE, "B1")>> >>) }

EmptyDir == [ n \in {} |-> DirEntry ]

NoFiles == [ q \in {} |-> "-" ]

NoCall ==
    [ url |-> << >>, response |-> NoResponse,
      result |-> CallResult(FALSE, "none", None, None, FALSE, FALSE, NoPlace),
      before |-> [ dir |-> EmptyDir, listing |-> << >>, outside |-> NoFiles ] ]

NameIdle == url_in = << >> /\ ctype_in = None /\ filename_out = None

MainIdle ==
    urls = << >> /\ i = 1 /\ successful_downloads = 0 /\ calls = << >> /\ rets = << >>

\* The directory as create_directory leaves it: what was there before stays.
DirectoryReady ==
    /\ \E d0 \in InitDirs : dir = d0.dir /\ listing = d0.listing
    /\ outside = NoFiles
    /\ written = {}
    /\ fetched = {}
    /\ last = NoCall
    /\ ncalls = 0

(***************************************************************************)
(* Spec: a free sequence of download_image calls on one directory.         *)
(***************************************************************************)
Init == pc = "calling" /\ NameIdle /\ MainIdle /\ DirectoryReady

Call ==
    /\ pc = "calling"
    /\ ncalls < MaxCalls
    /\ \E u \in FetchURLs, resp \in Responses, io_fails \in BOOLEAN :
          download_image(u, resp, io_fails)
    /\ UNCHANGED << pc, nameVars, mainVars >>

Next == Call

Spec == Init /\ [][Next]_vars

(***************************************************************************)
(* SpecBatch: main's loop over the list of URLs.                           *)
(***************************************************************************)
BatchURLs == { UrlPlain, UrlNoName, UrlFtp }

Extend(L) == L \cup { Append(l, u) : l \in L, u \in BatchURLs }

RECURSIVE ListsUpTo(_)
ListsUpTo(n) == IF n = 0 THEN { << >> } ELSE Extend(ListsUpTo(n - 1))

\* A counter that counts every call.
CountSuccessAlways(successful, ret) == successful + 1

\* if download_image(url, directory): successful_downloads += 1
CountSuccess(successful, ret) == IF ret THEN successful + 1 ELSE successful

InitBatch ==
    /\ pc = "main_loop"
    /\ NameIdle
    /\ DirectoryReady
    /\ urls \in ListsUpTo(MaxUrls)
    /\ i = 1
    /\ successful_downloads = 0
    /\ calls = << >>
    /\ rets = << >>

LoopBody ==
    /\ pc = "main_loop"
    /\ i <= Len(urls)
    /\ \E resp \in Responses, io_fails \in BOOLEAN :
          download_image(urls[i], resp, io_fails)
    /\ successful_downloads' = CountSuccess(successful_downloads, last'.result.ret)
    /\ calls' = Append(calls, urls[i])
    /\ rets' = Append(rets, last'.result.ret)
    /\ i' = i + 1
    /\ UNCHANGED << pc, urls, nameVars >>

LoopExit ==
    /\ pc = "main_loop"
    /\ i > Len(urls)
    /\ pc' = "main_done"
    /\ UNCHANGED << nameVars, fsVars, mainVars >>

NextBatch == LoopBody \/ LoopExit

SpecBatch == InitBatch /\ [][NextBatch]_vars

(***************************************************************************)
(* SpecName: extract_filename applied to one URL and content type.         *)
(***************************************************************************)
InitName ==
    /\ pc = "name_input"
    /\ url_in \in NameURLs
    /\ ctype_in \in NameCTypes
    /\ filename_out = None
    /\ MainIdle
    /\ dir = EmptyDir /\ listing = << >> /\ outside = NoFiles /\ written = {}
    /\ fetched = {} /\ last = NoCall /\ ncalls = 0

ResolveName ==
    /\ pc = "name_input"
    /\ filename_out' = extract_filename(url_in, ctype_in)
    /\ pc' = "name_done"
    /\ UNCHANGED << url_in, ctype_in, fsVars, mainVars >>

NextName == ResolveName

SpecName == InitName /\ [][NextName]_vars

(***************************************************************************)
(* The properties.  They are stated in terms of the inputs and the         *)
(* observable results: the prefix of the URL, the status, the header, the  *)
(* bytes in the directory before and after the call.                       *)
(***************************************************************************)
Http == <<"h", "t", "t", "p", ":", "/", "/">>
Https == <<"h", "t", "t", "p", "s", ":", "/", "/">>

HasHttpPrefix(u) ==
    \/ Len(u) >= 7 /\ \A k \in 1..7 : u[k] = Http[k]
    \/ Len(u) >= 8 /\ \A k \in 1..8 : u[k] = Https[k]

Called == ncalls > 0

\* The latest call got a response from the server.
GotResponse == Called /\ last.result.requested /\ ~last.response.err

\* The Content-Type of the latest response up to the first ";" ("" if absent).
MediaType ==
    SplitFirst(HeadersGet(last.response.headers, "Content-Type", << >>), ";")

BeginsWithImage(ct) ==
    Len(ct) >= 6 /\ SubSeq(ct, 1, 6) = <<"i", "m", "a", "g", "e", "/">>

\* The latest call left the filesystem as it found it.
NothingWritten ==
    /\ dir = last.before.dir
    /\ listing = last.before.listing
    /\ outside = last.before.outside

\* Readable regular files of directory d whose bytes have the digest of body.
Matches(d, body) ==
    { n \in DOMAIN d : d[n].kind = "file" /\ d[n].readable
                       /\ Md5Body(d[n].content) = Md5Body(body) }

\* The latest response is a 2xx response with an image content type.
AcceptedImage ==
    GotResponse /\ last.response.status_code \in 200..299 /\ BeginsWithImage(MediaType)

\* The name at which a call saved its file, or the file it reported.
FileOf(call) ==
    IF call.result.outcome = "saved" THEN call.result.filename ELSE call.result.reported

\* C1: idempotence of download_image. If a call returned success and the next
\* call has the same URL and gets the same response, the next call returns
\* success, reports as duplicate the file the first call saved or reported,
\* writes nothing and leaves the number of entries of the directory unchanged.
C1_Idempotence ==
    [][ ( /\ Called
          /\ ncalls' = ncalls + 1
          /\ last.result.ret
          /\ last'.url = last.url
          /\ last'.response = last.response )
        => ( /\ last'.result.ret
             /\ last'.result.outcome = "duplicate"
             /\ last'.result.reported = FileOf(last)
             /\ dir' = dir /\ outside' = outside
             /\ Cardinality(DOMAIN dir') = Cardinality(DOMAIN dir) ) ]_vars

\* The bytes of a file the run wrote in the directory or under one of its
\* subdirectories.
ContentAt(p) == IF p.at = "dir" THEN dir[p.leaf].content ELSE outside[p]

\* C2: content uniqueness of a run. At every point no two files that the run
\* wrote in the directory (its subdirectories included) have the same
\* fingerprint.
C2_ContentUnique ==
    \A p, q \in { w \in written : w.at \in { "dir", "sub" } } :
        p # q => Md5Body(ContentAt(p)) # Md5Body(ContentAt(q))

\* C3 as claimed: a response whose status is not in 200..299 (1xx and 3xx
\* included) makes download_image return failure and write no file.
C3_Non2xxFails ==
    (GotResponse /\ last.response.status_code \notin 200..299)
        => (~last.result.ret /\ NothingWritten)

\* C3, amended: a response whose status is in 400..599 makes download_image
\* return failure and write no file, whatever its content type and body.
C3_ErrorStatusFails ==
    (GotResponse /\ last.response.status_code \in 400..599)
        => (~last.result.ret /\ NothingWritten)

C3_Witness ==
    /\ GotResponse
    /\ last.response.status_code = 404
    /\ BeginsWithImage(MediaType)
    /\ ~last.result.ret
    /\ Matches(dir, last.response.content) = {}

\* C4: content-type gating. A 2xx response whose Content-Type, cut at the
\* first ";", does not begin with "image/" (a missing header included) makes
\* download_image return failure and leave the directory exactly as it was.
C4_ContentTypeGate ==
    (GotResponse /\ last.response.status_code \in 200..299 /\ ~BeginsWithImage(MediaType))
        => (~last.result.ret /\ NothingWritten)

C4_Witness ==
    /\ GotResponse
    /\ last.response.status_code = 200
    /\ last.response.headers = << >>
    /\ ~last.result.ret
    /\ dir # EmptyDir

\* C5: a duplicate hit performs no write. When the body of an accepted image
\* response has the fingerprint of a readable regular file of the directory,
\* download_image returns success, reports such a file and leaves the
\* directory unchanged, also when the name derived from the URL is another
\* one or names another existing file.
C5_DuplicateNoWrite ==
    (AcceptedImage /\ Matches(last.before.dir, last.response.content) # {})
        => ( /\ last.result.ret
             /\ last.result.outcome = "duplicate"
             /\ last.result.reported \in Matches(last.before.dir, last.response.content)
             /\ NothingWritten )

C5_Witness ==
    /\ AcceptedImage
    /\ Matches(last.before.dir, last.response.content) # {}
    /\ last.result.ret
    /\ last.result.filename \in DOMAIN last.before.dir
    /\ last.before.dir[last.result.filename].kind = "file"
    /\ last.result.filename # last.result.reported

\* C6: batch completeness and tally. At every point of main's loop
\* download_image has been called exactly once for each URL before the loop
\* index, in input order; the success counter is the number of calls that
\* returned True; the loop can always go on; and it ends only after the last
\* URL, with as many calls as the list has URLs.
C6_BatchTally ==
    /\ i - 1 <= Len(urls)
    /\ calls = SubSeq(urls, 1, i - 1)
    /\ ncalls = i - 1
    /\ Len(rets) = i - 1
    /\ successful_downloads = Cardinality({ k \in 1..Len(rets) : rets[k] })
    /\ pc = "main_loop" => ENABLED NextBatch
    /\ pc = "main_done" => (calls = urls /\ Len(rets) = Len(urls))

C6_Witness ==
    /\ pc = "main_done"
    /\ Len(urls) >= 2
    /\ ~rets[1]
    /\ rets[2]
    /\ successful_downloads = 1

\* C7: scheme validation. For a URL that does not start with "http://" or
\* "https://" download_image returns failure, issues no HTTP request and
\* neither reads nor writes the directory.
C7_SchemeValidation ==
    (Called /\ ~HasHttpPrefix(last.url))
        => ( /\ ~last.result.ret
             /\ ~last.result.requested
             /\ ~last.result.scanned
             /\ NothingWritten )

C7_Witness ==
    /\ Called
    /\ ~HasHttpPrefix(last.url)
    /\ ~last.result.ret
    /\ dir # EmptyDir

\* The last segment of a path: what follows its last "/".
LastSegment(p) ==
    CHOOSE t \in { SubSeq(p, k, Len(p)) : k \in 1..(Len(p) + 1) } :
        /\ \A j \in 1..Len(t) : t[j] # "/"
        /\ Len(t) = Len(p) \/ p[Len(p) - Len(t)] = "/"

\* The candidate is rejected: empty, without ".", or shorter than 3.
Rejected(seg) == seg = << >> \/ (\A j \in 1..Len(seg) : seg[j] # ".") \/ Len(seg) < 3

\* The extension of the content type (any case), ".jpg" when it has none.
ExtensionFor(ct) ==
    IF \E e \in content_map : e[1] = Lower(ct)
    THEN (CHOOSE e \in content_map : e[1] = Lower(ct))[2]
    ELSE <<".", "j", "p", "g">>

\* C8 as claimed: the result is image_<8 hex of the URL hash><extension> when
\* the last segment of the decoded path is rejected, and that segment
\* otherwise.
C8_NameRuleAsClaimed ==
    pc = "name_done" =>
        filename_out =
            IF Rejected(LastSegment(unquote(UrlPath(url_in))))
            THEN <<"i", "m", "a", "g", "e", "_">> \o Md5Hex8(url_in) \o ExtensionFor(ctype_in)
            ELSE LastSegment(unquote(UrlPath(url_in)))

\* C8, amended: the result is ubuntu_image_<8 hex of the URL hash><extension>
\* exactly when the last segment of the decoded path is rejected, and
\* otherwise that segment percent-decoded once more.
C8_NameRule ==
    pc = "name_done" =>
        filename_out =
            IF Rejected(LastSegment(unquote(UrlPath(url_in))))
            THEN <<"u", "b", "u", "n", "t", "u", "_", "i", "m", "a", "g", "e", "_">>
                     \o Md5Hex8(url_in) \o ExtensionFor(ctype_in)
            ELSE unquote(LastSegment(unquote(UrlPath(url_in))))

C8_Witness ==
    /\ pc = "name_done"
    /\ ~Rejected(LastSegment(unquote(UrlPath(url_in))))
    /\ filename_out # LastSegment(unquote(UrlPath(url_in)))
    /\ Contains(filename_out, "/")

\* C9: the duplicate scan. The scan reports a duplicate if and only if some
\* readable regular file of the directory has the fingerprint of the body,
\* and the file it reports is one of them; subdirectories and files that
\* cannot be read do not match and do not end the scan.
C9_DuplicateScan ==
    (Called /\ last.result.scanned)
        => ( /\ last.result.outcome = "duplicate"
                  <=> Matches(last.before.dir, last.response.content) # {}
             /\ last.result.outcome = "duplicate"
                  => last.result.reported \in Matches(last.before.dir, last.response.content) )

\* An unreadable file with the digest of the body is listed before the file
\* the scan reported.
C9_Witness ==
    /\ Called
    /\ last.result.outcome = "duplicate"
    /\ \E a, b \in 1..Len(last.before.listing) :
          /\ a < b
          /\ last.before.listing[b] = last.result.reported
          /\ last.before.dir[last.before.listing[a]].kind = "file"
          /\ ~last.before.dir[last.before.listing[a]].readable
          /\ Md5Body(last.before.dir[last.before.listing[a]].content)
                = Md5Body(last.response.content)

\* The directory holds the bytes b: in an entry, or in a file under one of
\* its subdirectories.
Holds(b) ==
    \/ \E n \in DOMAIN dir : dir[n].kind = "file" /\ dir[n].content = b
    \/ \E q \in DOMAIN outside : q.at = "sub" /\ outside[q] = b

\* C10: retention. For every call that returned success the directory still
\* holds a file whose bytes are that call's response body.
C10_Retention == \A b \in fetched : Holds(b)

====
